---- MODULE Spec2Model ----
\* A model of the demo components of the ReactTraining repository: each
\* behaviour renders one component (demo) and runs its handlers, effects,
\* timers and fetch callbacks in every order the browser allows.
EXTENDS Integers, Sequences, FiniteSets, TLC

\* ---------------------------------------------------------------- bounds
MaxClicks == 4
MaxLen == 2
MaxTodos == 2
MaxItems == MaxTodos - 1
MaxRequests == 3
MaxStored == 4
MaxReruns == 2
MaxCount == 5
MaxPayload == 2
MaxLedger == 3
MaxSteps == 5
MaxChanges == 3
MaxOption == 1
MaxConsumers == 2
MaxExtra == 1
MaxEmailLen == 1
MaxQueryLen == 2

\* ------------------------------------------------------- program constants
CallbackInitialCount == 10
CounterInitialCount == 0
TodoIdRange == 10

TimerLimit == 100
DebounceDelay == 1000
FormMinLen == 8

VARIABLES
    demo,           \* the component the page renders
    op,             \* the handler, effect or callback that ran last
    count,          \* click counters: the count state
    shown,          \* click counters: the count of the last committed render
    clicks,         \* click counters: Increment clicks handled so far
    handled,        \* click counters: clicks handled since the last render
    eachOwnRender,  \* click counters: no render has handled two clicks
    todos,          \* todo components: the todos state
    input,          \* todo components: the input state
    url,            \* fetch components: the url the effect reads
    data,           \* fetch components: the data (meals) state
    sent,           \* fetch components: the url of every GET issued, in order
    inflight,       \* fetch components: the requests not yet settled
    effectDue,      \* fetch components: the effect is scheduled to run
    arrived,        \* fetch components: the requests answered, in arrival order
    urlChanges,     \* useFetch: how often the caller changed url
    log,            \* Meals: the errors written to the console
    unhandled,      \* fetch components: promise rejections nobody caught
    crashed,        \* fetch components: a render threw
    name,           \* CallbackThree: the name state
    storage,        \* CallbackThree: the local storage entry "name"
    nameEffectDue,  \* CallbackThree: the storing effect is scheduled to run
    nameChanged,    \* CallbackThree: name has changed since the mount
    timerCount,     \* Timer: the count state
    timerRef,       \* Timer: timer.current (0 is null)
    live,           \* Timer: the intervals created and not cleared
    nextId,         \* Timer: the id the next setInterval returns
    phase,          \* Timer: "effectDue", "active" or "unmounted"
    ready,          \* Timer: the intervals whose period has elapsed
    periodStart,    \* Timer: the count when the current period began
    reruns,         \* Timer: how often the effect was cleaned up and set up again
    state,          \* reducer Counter: the reducer state
    initialState,   \* reducer Counter: the module's initialState object
    action,         \* reducer Counter: the action dispatched last
    prevState,      \* reducer Counter: the state that action was applied to
    stateIsInitial, \* reducers: the state is the initialState object itself
    givenAfter,     \* reducers: the object the reducer was given, after the call
    amount,         \* Counter with amounts: the number field's input state
    ledger,         \* Counter with amounts: the signed amounts since the last reset
    inputField,     \* DebounceExample: the inputField state
    debouncedField, \* DebounceExample: the debouncedField state
    pending,        \* DebounceExample: the timeouts set and not yet fired or cleared
    timeoutHandler, \* DebounceExample: the timeout the last effect's cleanup clears
    nextTimeout,    \* DebounceExample: the id setTimeout returns next
    now,            \* DebounceExample: the clock, in ms
    lastChangeAt,   \* DebounceExample: the time of the last input change
    debounceEffectDue,\* DebounceExample: the effect is scheduled to run
    debounceMounted,\* DebounceExample: the component is mounted
    changes,        \* DebounceExample: input changes so far
    darkMode,       \* DarkMode: the darkMode state
    bodyClasses,    \* DarkMode: document.body.classList
    darkEffectDue,  \* DarkMode: the effect is scheduled to run
    darkClicks,     \* DarkMode: clicks and remounts so far
    options,        \* useCounter: the options of the call
    hookCount,      \* useCounter: the count state
    hookCalls,      \* useCounter: calls of increment, decrement and reset so far
    user,           \* UserProvider: the user state
    newName,        \* UpdateUser: the newName state
    lastArg,        \* UserProvider: the argument of the last updateUser call
    updateCalls,    \* UserProvider: updateUser calls so far
    shownName,      \* UserProfile: the name each consumer rendered last
    userRenderDue,  \* UserProvider: a render is scheduled
    hookUrl,        \* guarded useFetch: the url of the last render
    hookData,       \* guarded useFetch: the data state
    hookLoading,    \* guarded useFetch: the loading state
    hookError,      \* guarded useFetch: the error state (the failed request, 0 for null)
    issued,         \* guarded useFetch: the url of every fetch, in order
    outstanding,    \* guarded useFetch: the requests not yet settled
    mountedFlags,   \* guarded useFetch: the requests whose effect's isMounted is true
    hookEffectDue,  \* guarded useFetch: the effect is scheduled to run
    hookAlive,      \* guarded useFetch: the calling component is mounted
    settled,        \* guarded useFetch: the request that settled last
    username,       \* Form: the username state
    email,          \* Form: the email state
    password,       \* Form: the password state
    confirmPassword,\* Form: the confirmPassword state
    errorUsername,  \* Form: the error text under the name field
    errorEmail,     \* Form: the error text under the email field
    errorPassword,  \* Form: the error text under the password field
    errorConfirmPassword,\* Form: the error text under the confirm field
    userColor,      \* Form: the border colour of the name field
    emailColor,     \* Form: the border colour of the email field
    passwordColor,  \* Form: the border colour of the password field
    confirmPasswordColor,\* Form: the border colour of the confirm field
    query,          \* shop: the query state
    filters,        \* shop: the filters state
    result,         \* shop: what filteredData returned last
    cards,          \* shop: the products Products renders a Card for
    dataExported    \* shop: db/data has the export Products imports

counterVars == <<count, shown, clicks, handled, eachOwnRender>>
todoVars == <<todos, input>>
fetchVars ==
    <<url, data, sent, inflight, effectDue, arrived, urlChanges, log,
      unhandled, crashed>>
nameVars == <<name, storage, nameEffectDue, nameChanged>>
timerVars ==
    <<timerCount, timerRef, live, nextId, phase, ready, periodStart, reruns>>
reducerVars ==
    <<state, initialState, action, prevState, stateIsInitial, givenAfter,
      amount, ledger>>
debounceVars ==
    <<inputField, debouncedField, pending, timeoutHandler, nextTimeout, now,
      lastChangeAt, debounceEffectDue, debounceMounted, changes>>
darkVars ==
    <<darkMode, bodyClasses, darkEffectDue, darkClicks>>
useCounterVars ==
    <<options, hookCount, hookCalls>>
userVars ==
    <<user, newName, lastArg, updateCalls, shownName, userRenderDue>>
guardedVars ==
    <<hookUrl, hookData, hookLoading, hookError, issued, outstanding,
      mountedFlags, hookEffectDue, hookAlive, settled>>
formVars ==
    <<username, email, password, confirmPassword, errorUsername, errorEmail,
      errorPassword, errorConfirmPassword, userColor, emailColor,
      passwordColor, confirmPasswordColor>>
shopVars ==
    <<query, filters, result, cards, dataExported>>
vars ==
    <<demo, op, counterVars, todoVars, fetchVars, nameVars, timerVars,
      reducerVars, debounceVars, darkVars, useCounterVars, userVars,
      guardedVars, formVars, shopVars>>

\* What a component leaves alone: the page and every other component.
exceptCounter ==
    <<demo, todoVars, fetchVars, nameVars, timerVars, reducerVars,
      debounceVars, darkVars, useCounterVars, userVars, guardedVars,
      formVars, shopVars>>
exceptTodo ==
    <<demo, counterVars, fetchVars, nameVars, timerVars, reducerVars,
      debounceVars, darkVars, useCounterVars, userVars, guardedVars,
      formVars, shopVars>>
exceptFetch ==
    <<demo, counterVars, todoVars, nameVars, timerVars, reducerVars,
      debounceVars, darkVars, useCounterVars, userVars, guardedVars,
      formVars, shopVars>>
exceptName ==
    <<demo, counterVars, todoVars, fetchVars, timerVars, reducerVars,
      debounceVars, darkVars, useCounterVars, userVars, guardedVars,
      formVars, shopVars>>
exceptTimer ==
    <<demo, counterVars, todoVars, fetchVars, nameVars, reducerVars,
      debounceVars, darkVars, useCounterVars, userVars, guardedVars,
      formVars, shopVars>>
exceptReducer ==
    <<demo, counterVars, todoVars, fetchVars, nameVars, timerVars,
      debounceVars, darkVars, useCounterVars, userVars, guardedVars,
      formVars, shopVars>>
exceptDebounce ==
    <<demo, counterVars, todoVars, fetchVars, nameVars, timerVars,
      reducerVars, darkVars, useCounterVars, userVars, guardedVars, formVars,
      shopVars>>
exceptDark ==
    <<demo, counterVars, todoVars, fetchVars, nameVars, timerVars,
      reducerVars, debounceVars, useCounterVars, userVars, guardedVars,
      formVars, shopVars>>
exceptUseCounter ==
    <<demo, counterVars, todoVars, fetchVars, nameVars, timerVars,
      reducerVars, debounceVars, darkVars, userVars, guardedVars, formVars,
      shopVars>>
exceptUser ==
    <<demo, counterVars, todoVars, fetchVars, nameVars, timerVars,
      reducerVars, debounceVars, darkVars, useCounterVars, guardedVars,
      formVars, shopVars>>
exceptGuarded ==
    <<demo, counterVars, todoVars, fetchVars, nameVars, timerVars,
      reducerVars, debounceVars, darkVars, useCounterVars, userVars,
      formVars, shopVars>>
exceptForm ==
    <<demo, counterVars, todoVars, fetchVars, nameVars, timerVars,
      reducerVars, debounceVars, darkVars, useCounterVars, userVars,
      guardedVars, shopVars>>
exceptShop ==
    <<demo, counterVars, todoVars, fetchVars, nameVars, timerVars,
      reducerVars, debounceVars, darkVars, useCounterVars, userVars,
      guardedVars, formVars>>

\* ------------------------------------------------------------- strings
\* A string is a sequence of one-character strings.
SP == " "

RECURSIVE StringsOver(_, _)
StringsOver(chars, n) ==
    IF n = 0 THEN {<<>>}
    ELSE LET shorter == StringsOver(chars, n - 1)
         IN  shorter \cup {Append(s, c) : s \in shorter, c \in chars}

\* String.prototype.trim: drops the white space at both ends.
RECURSIVE TrimStart(_)
TrimStart(s) ==
    IF s # <<>> /\ Head(s) = SP THEN TrimStart(Tail(s)) ELSE s

RECURSIVE TrimEnd(_)
TrimEnd(s) ==
    IF s # <<>> /\ s[Len(s)] = SP THEN TrimEnd(SubSeq(s, 1, Len(s) - 1)) ELSE s

trim(s) == TrimEnd(TrimStart(s))

\* What the user can type into the todo input field.
TodoTexts == StringsOver({"a", SP}, MaxLen)

\* ------------------------------------------------------- click counters
ClickCounters == {"Callback", "Counter"}

\* useState's initial value.
InitialCount(c) ==
    IF c = "Callback" THEN CallbackInitialCount ELSE CounterInitialCount

CounterInit ==
    /\ count = IF demo \in ClickCounters THEN InitialCount(demo) ELSE 0
    /\ shown = count
    /\ clicks = 0
    /\ handled = 0
    /\ eachOwnRender = TRUE

\* An increment written setCount(count++): the old value is passed.
incrementPostfix ==
    /\ demo \in ClickCounters
    /\ clicks < MaxClicks
    /\ count' = shown
    /\ clicks' = clicks + 1
    /\ handled' = handled + 1
    /\ eachOwnRender' = (eachOwnRender /\ handled = 0)
    /\ op' = "increment"
    /\ UNCHANGED <<shown, exceptCounter>>

\* increment: setCount(count + 1), where count is the value the render that
\* created the handler captured.
increment ==
    /\ demo \in ClickCounters
    /\ clicks < MaxClicks
    /\ count' = shown + 1
    /\ clicks' = clicks + 1
    /\ handled' = handled + 1
    /\ eachOwnRender' = (eachOwnRender /\ handled = 0)
    /\ op' = "increment"
    /\ UNCHANGED <<shown, exceptCounter>>

\* The render React runs after a state change: the new closure and the
\* heading see the current count.
CounterRender ==
    /\ demo \in ClickCounters
    /\ handled > 0
    /\ shown' = count
    /\ handled' = 0
    /\ op' = "render"
    /\ UNCHANGED <<count, clicks, eachOwnRender, exceptCounter>>

\* ------------------------------------------------------ todo components
TodoDemos == {"TodoList", "Todo"}

TodoInit ==
    /\ todos = <<>>
    /\ input = <<>>

\* onChange: setInput(e.target.value).
TodoChange ==
    /\ demo \in TodoDemos
    /\ \E v \in TodoTexts : input' = v
    /\ op' = "change"
    /\ UNCHANGED <<todos, exceptTodo>>

\* TodoList.handleSubmit with the guard `if (input)`.
TodoListSubmitNoTrim(ts, inp) ==
    IF inp # <<>> THEN <<Append(ts, inp), <<>>>> ELSE <<ts, inp>>

\* TodoList.handleSubmit as a function of (todos, input).
TodoListSubmit(ts, inp) ==
    IF trim(inp) # <<>> THEN <<Append(ts, inp), <<>>>> ELSE <<ts, inp>>

\* Todo.handleSubmit as a relation: the id is Math.floor(Math.random() * 10).
TodoSubmit(ts, inp, id) ==
    IF inp = <<>> THEN <<ts, inp>>
    ELSE <<Append(ts, [text |-> inp, id |-> id]), <<>>>>

handleSubmit ==
    /\ demo \in TodoDemos
    /\ IF demo = "TodoList"
       THEN /\ todos' = TodoListSubmit(todos, input)[1]
            /\ input' = TodoListSubmit(todos, input)[2]
            /\ Len(todos') <= MaxTodos
       ELSE /\ \E id \in 0 .. (TodoIdRange - 1) :
                 /\ todos' = TodoSubmit(todos, input, id)[1]
                 /\ input' = TodoSubmit(todos, input, id)[2]
            /\ Len(todos') <= MaxItems
    /\ op' = "submit"
    /\ UNCHANGED exceptTodo

\* TodoList's Clear All button has no type, so it is a submit button of the
\* form: its click handler empties the list, React renders, and the form's
\* submit event then runs handleSubmit on the emptied list.
TodoListClearAll ==
    /\ demo = "TodoList"
    /\ todos' = TodoListSubmit(<<>>, input)[1]
    /\ input' = TodoListSubmit(<<>>, input)[2]
    /\ op' = "clearAll"
    /\ UNCHANGED exceptTodo

\* Todo.handleDelete: removes every todo with the id.
TodoDelete ==
    /\ demo = "Todo"
    /\ \E i \in 1 .. Len(todos) :
         todos' = SelectSeq(todos, LAMBDA t : t.id # todos[i].id)
    /\ op' = "delete"
    /\ UNCHANGED <<input, exceptTodo>>

\* ----------------------------------------------------- fetch components
\* The components that GET once on mount, and the useFetch(url) hook.
MountFetchDemos ==
    {"FetchDataEffect", "PostsApp", "TodosApp", "useFetchPosts", "Meals"}
FetchDemos == MountFetchDemos \cup {"useFetch"}

\* The urls a caller of useFetch passes.
Urls == {"/posts", "/todos"}

\* The url each component fetches on mount.
MountUrl(d) ==
    CASE d = "TodosApp" -> "https://jsonplaceholder.typicode.com/todos"
      [] d = "Meals" -> "https://www.themealdb.com/api/json/v1/1/search.php?s="
      [] d = "useFetch" -> "/posts"
      [] OTHER -> "https://jsonplaceholder.typicode.com/posts"

\* What a response's JSON holds: an empty array, an array with rows, or (the
\* meals field of the meal API) null.
Bodies(d) == IF d = "Meals" THEN {"empty", "rows", "null"} ELSE {"empty", "rows"}

\* useState([]): no request produced the initial list.
InitialData == [req |-> 0, rows |-> "empty"]

FetchInit ==
    /\ url = MountUrl(demo)
    /\ data = InitialData
    /\ sent = <<>>
    /\ inflight = {}
    /\ effectDue = (demo \in FetchDemos)
    /\ arrived = <<>>
    /\ urlChanges = 0
    /\ log = <<>>
    /\ unhandled = 0
    /\ crashed = FALSE

\* The effect body: one fetch / axios.get of the url.
FetchEffect ==
    /\ demo \in FetchDemos
    /\ effectDue
    /\ Len(sent) < MaxRequests
    /\ sent' = Append(sent, url)
    /\ inflight' = inflight \cup {Len(sent) + 1}
    /\ effectDue' = FALSE
    /\ op' = "effect"
    /\ UNCHANGED <<url, data, arrived, urlChanges, log, unhandled, crashed,
                   exceptFetch>>

\* A hook that ignores the response of a request for another url.
WritesDataCurrentOnly(d, r, body) ==
    CASE d \in {"FetchDataEffect", "TodosApp"} -> body = "rows"
      [] d = "useFetch" -> sent[r] = url
      [] OTHER -> TRUE

\* Whether the response handler calls setData / setMeals:
\* FetchDataEffect and the todos App only `if (data && data.length)`.
WritesData(d, r, body) ==
    CASE d \in {"FetchDataEffect", "TodosApp"} -> body = "rows"
      [] OTHER -> TRUE

\* Whether the effect's dependency array makes it run again after setData:
\* the todos App lists [data], and every response is a new array.
RerunsEffect(d) == d = "TodosApp"

\* Whether the render after setData throws: Meals calls meals.map on null.
RenderThrows(d, body) == d = "Meals" /\ body = "null"

\* The response of request r arrives with the body.
FetchResolve ==
    /\ demo \in FetchDemos
    /\ \E r \in inflight, body \in Bodies(demo) :
         /\ inflight' = inflight \ {r}
         /\ arrived' = Append(arrived, [req |-> r, rows |-> body])
         /\ IF WritesData(demo, r, body)
            THEN /\ data' = [req |-> r, rows |-> body]
                 /\ effectDue' = (effectDue \/ RerunsEffect(demo))
                 /\ crashed' = (crashed \/ RenderThrows(demo, body))
            ELSE UNCHANGED <<data, effectDue, crashed>>
    /\ op' = "resolve"
    /\ UNCHANGED <<url, sent, urlChanges, log, unhandled, exceptFetch>>

\* A Meals whose catch handler is missing.
OnRejectedNoCatch(d, r) ==
    /\ unhandled' = unhandled + 1
    /\ UNCHANGED log

\* The request fails: Meals' catch logs the error, the async functions of
\* the others reject a promise nobody holds.
OnRejected(d, r) ==
    IF d = "Meals"
    THEN /\ log' = Append(log, r)
         /\ UNCHANGED unhandled
    ELSE /\ unhandled' = unhandled + 1
         /\ UNCHANGED log

FetchReject ==
    /\ demo \in FetchDemos
    /\ \E r \in inflight :
         /\ inflight' = inflight \ {r}
         /\ OnRejected(demo, r)
    /\ op' = "reject"
    /\ UNCHANGED <<url, data, sent, effectDue, arrived, urlChanges, crashed,
                   exceptFetch>>

\* The caller of useFetch renders it with another url: the effect's
\* dependency [url] changed, so it runs again after the commit.
ChangeUrl ==
    /\ demo = "useFetch"
    /\ ~effectDue
    /\ Len(sent) < MaxRequests
    /\ \E u \in Urls \ {url} : url' = u
    /\ urlChanges' = urlChanges + 1
    /\ effectDue' = TRUE
    /\ op' = "changeUrl"
    /\ UNCHANGED <<data, sent, inflight, arrived, log, unhandled, crashed,
                   exceptFetch>>

\* -------------------------------------------------------- CallbackThree
Q == "\""
BS == "\\"

\* What the user can type into the name field.
NameTexts == StringsOver({"a", Q}, MaxLen)

\* Local storage is a set of <<key, value>> entries, one per key at most.
hasItem(st, k) == \E e \in st : e[1] = k
getItem(st, k) == (CHOOSE e \in st : e[1] = k)[2]
removeItem(st, k) == {e \in st : e[1] # k}
setItem(st, k, v) == removeItem(st, k) \cup {<<k, v>>}

\* JSON.stringify of a string: quotes around it, quotes and backslashes
\* inside it escaped.
RECURSIVE Escape(_)
Escape(s) ==
    IF s = <<>> THEN <<>>
    ELSE (IF Head(s) \in {Q, BS} THEN <<BS, Head(s)>> ELSE <<Head(s)>>)
         \o Escape(Tail(s))

JSONstringify(s) == <<Q>> \o Escape(s) \o <<Q>>

\* localStorage.getItem("name") || "".
initialName(st) ==
    IF hasItem(st, "name") /\ getItem(st, "name") # <<>>
    THEN getItem(st, "name")
    ELSE <<>>

NameInit ==
    /\ storage = {}
    /\ name = initialName(storage)
    /\ nameEffectDue = (demo = "CallbackThree")
    /\ nameChanged = FALSE

\* useEffect(..., [name]): localStorage.setItem("name", JSON.stringify(name)).
NameEffect ==
    /\ demo = "CallbackThree"
    /\ nameEffectDue
    /\ storage' = setItem(storage, "name", JSONstringify(name))
    /\ nameEffectDue' = FALSE
    /\ op' = "effect"
    /\ UNCHANGED <<name, nameChanged, exceptName>>

\* handleChange: setName(e.target.value); a change event carries a new value.
handleChange ==
    /\ demo = "CallbackThree"
    /\ ~nameEffectDue
    /\ \E v \in NameTexts \ {name} : name' = v
    /\ nameEffectDue' = TRUE
    /\ nameChanged' = TRUE
    /\ op' = "change"
    /\ UNCHANGED <<storage, exceptName>>

\* clearName: setName(""); localStorage.removeItem("name"). Setting the
\* state to the value it has schedules no render and no effect.
clearName ==
    /\ demo = "CallbackThree"
    /\ ~nameEffectDue
    /\ name' = <<>>
    /\ storage' = removeItem(storage, "name")
    /\ nameEffectDue' = (name # <<>>)
    /\ nameChanged' = (nameChanged \/ name # <<>>)
    /\ op' = "clear"
    /\ UNCHANGED exceptName

\* The page is loaded again: the state is built from local storage.
NameRemount ==
    /\ demo = "CallbackThree"
    /\ ~nameEffectDue
    /\ hasItem(storage, "name") => Len(getItem(storage, "name")) <= MaxStored
    /\ name' = initialName(storage)
    /\ nameEffectDue' = TRUE
    /\ nameChanged' = FALSE
    /\ op' = "mount"
    /\ UNCHANGED <<storage, exceptName>>

\* ---------------------------------------------------------------- Timer
TimerInit ==
    /\ timerCount = 0
    /\ timerRef = 0
    /\ live = {}
    /\ nextId = 1
    /\ phase = IF demo = "Timer" THEN "effectDue" ELSE "unmounted"
    /\ ready = {}
    /\ periodStart = 0
    /\ reruns = 0

\* A cleanup that forgets clearInterval.
TimerCleanupNoClear(ref, lv) == lv

\* The effect's cleanup: if (timer.current) clearInterval(timer.current).
TimerCleanup(ref, lv) == IF ref # 0 THEN lv \ {ref} ELSE lv

\* An effect that keeps the interval id out of the ref.
TimerEffectNoRef ==
    /\ demo = "Timer"
    /\ phase = "effectDue"
    /\ live' = live \cup {nextId}
    /\ nextId' = nextId + 1
    /\ phase' = "active"
    /\ op' = "effect"
    /\ UNCHANGED <<timerCount, timerRef, ready, periodStart, reruns,
                   exceptTimer>>

\* The effect body: timer.current = setInterval(callback, 1000).
TimerEffect ==
    /\ demo = "Timer"
    /\ phase = "effectDue"
    /\ timerRef' = nextId
    /\ live' = live \cup {nextId}
    /\ nextId' = nextId + 1
    /\ phase' = "active"
    /\ op' = "effect"
    /\ UNCHANGED <<timerCount, ready, periodStart, reruns, exceptTimer>>

\* StrictMode's simulated unmount: the cleanup runs, state and ref are kept,
\* and the effect is due again.
TimerRerun ==
    /\ demo = "Timer"
    /\ phase = "active"
    /\ reruns < MaxReruns
    /\ live' = TimerCleanup(timerRef, live)
    /\ phase' = "effectDue"
    /\ reruns' = reruns + 1
    /\ op' = "cleanup"
    /\ UNCHANGED <<timerCount, timerRef, nextId, ready, periodStart,
                   exceptTimer>>

\* The component unmounts: the cleanup runs.
TimerUnmount ==
    /\ demo = "Timer"
    /\ phase = "active"
    /\ live' = TimerCleanup(timerRef, live)
    /\ phase' = "unmounted"
    /\ op' = "unmount"
    /\ UNCHANGED <<timerCount, timerRef, nextId, ready, periodStart, reruns,
                   exceptTimer>>

\* An updater that stops one tick late: if (prev > 100).
TimerUpdaterLate(prev) ==
    IF prev > TimerLimit
    THEN [count |-> prev, clears |-> TRUE]
    ELSE [count |-> prev + 1, clears |-> FALSE]

\* The updater passed to setCount: the count it returns, and whether it
\* clears timer.current on the way.
TimerUpdater(prev) ==
    IF prev >= TimerLimit
    THEN [count |-> prev, clears |-> TRUE]
    ELSE [count |-> prev + 1, clears |-> FALSE]

\* 1000 ms pass: every live interval is due once more.
TimerPeriod ==
    /\ demo = "Timer"
    /\ live # {}
    /\ ready \cap live = {}
    /\ ready' = live
    /\ periodStart' = timerCount
    /\ op' = "period"
    /\ UNCHANGED <<timerCount, timerRef, live, nextId, phase, reruns,
                   exceptTimer>>

\* The callback of a due interval runs. React drops the update of an
\* unmounted component; at the limit the updater clears timer.current.
TimerTick ==
    /\ demo = "Timer"
    /\ \E id \in ready \cap live :
         /\ ready' = ready \ {id}
         /\ IF phase = "unmounted"
            THEN UNCHANGED <<timerCount, live>>
            ELSE /\ timerCount' = TimerUpdater(timerCount).count
                 /\ live' = IF TimerUpdater(timerCount).clears /\ timerRef # 0
                            THEN live \ {timerRef}
                            ELSE live
    /\ op' = "tick"
    /\ UNCHANGED <<timerRef, nextId, phase, periodStart, reruns, exceptTimer>>

\* ------------------------------------------------------- reducer Counter
\* Counter (increment / decrement / reset), Counter with amounts, and the
\* App with the increment / decrement reducer.
ReducerDemos == {"ReducerCounter", "AmountCounter", "ReducerApp"}

ActionTypes == {"increment", "decrement", "reset", "unknown"}
AmountTypes == {"incrementByAmount", "decrementByAmount"}

\* A JavaScript number: an integer, or NaN (parseInt of an empty field).
Num(n) == [nan |-> FALSE, val |-> n]
NaN == [nan |-> TRUE, val |-> 0]
Plus(a, b) == IF a.nan \/ b.nan THEN NaN ELSE Num(a.val + b.val)
Minus(a, b) == IF a.nan \/ b.nan THEN NaN ELSE Num(a.val - b.val)

\* What parseInt(e.target.value) yields for the number field.
AmountInputs == {NaN} \cup {Num(n) : n \in -1 .. MaxPayload}

\* const initialState = { count: 0 }.
InitialStateOf(d) ==
    IF d = "AmountCounter" THEN [count |-> Num(0)] ELSE [count |-> 0]

ReducerInit ==
    /\ initialState = InitialStateOf(demo)
    /\ state = initialState
    /\ action = [type |-> "none"]
    /\ prevState = initialState
    /\ stateIsInitial = TRUE
    /\ givenAfter = initialState
    /\ amount = Num(0)
    /\ ledger = <<>>

\* A reducer whose default branch keeps the state.
reducerKeepsState(s, a) ==
    CASE a.type = "increment" -> [s EXCEPT !.count = s.count + 1]
      [] a.type = "decrement" -> [s EXCEPT !.count = s.count - 1]
      [] OTHER -> s

\* reducer(state, action).
reducer(s, a) ==
    CASE a.type = "increment" -> [s EXCEPT !.count = s.count + 1]
      [] a.type = "decrement" -> [s EXCEPT !.count = s.count - 1]
      [] OTHER -> initialState

\* A reducer with amounts whose decrementByAmount branch was copied from
\* incrementByAmount and still adds.
reducerByAmountAdds(s, a) ==
    CASE a.type = "increment" -> [s EXCEPT !.count = Plus(s.count, Num(1))]
      [] a.type = "decrement" -> [s EXCEPT !.count = Minus(s.count, Num(1))]
      [] a.type = "incrementByAmount" ->
            [s EXCEPT !.count = Plus(s.count, a.payload)]
      [] a.type = "decrementByAmount" ->
            [s EXCEPT !.count = Plus(s.count, a.payload)]
      [] a.type = "reset" -> initialState
      [] OTHER -> s

\* The reducer of the Counter with amounts.
reducerByAmount(s, a) ==
    CASE a.type = "increment" -> [s EXCEPT !.count = Plus(s.count, Num(1))]
      [] a.type = "decrement" -> [s EXCEPT !.count = Minus(s.count, Num(1))]
      [] a.type = "incrementByAmount" ->
            [s EXCEPT !.count = Plus(s.count, a.payload)]
      [] a.type = "decrementByAmount" ->
            [s EXCEPT !.count = Minus(s.count, a.payload)]
      [] a.type = "reset" -> initialState
      [] OTHER -> s

\* The reducer of the App: increment, decrement, and the state otherwise.
reducerApp(s, a) ==
    CASE a.type = "increment" -> [s EXCEPT !.count = s.count + 1]
      [] a.type = "decrement" -> [s EXCEPT !.count = s.count - 1]
      [] OTHER -> s

Reduce(d, s, a) ==
    CASE d = "ReducerCounter" -> reducer(s, a)
      [] d = "AmountCounter" -> reducerByAmount(s, a)
      [] OTHER -> reducerApp(s, a)

\* Whether the branch taken returns the initialState object.
ReturnsInitial(d, a) ==
    CASE d = "ReducerCounter" -> a.type \notin {"increment", "decrement"}
      [] d = "AmountCounter" -> a.type = "reset"
      [] OTHER -> FALSE

\* Whether the branch taken returns the object it was given.
ReturnsGiven(d, a) ==
    CASE d = "ReducerCounter" -> FALSE
      [] d = "AmountCounter" ->
            a.type \notin {"increment", "decrement", "reset"} \cup AmountTypes
      [] OTHER -> a.type \notin {"increment", "decrement"}

\* A reducer that counts in place: state.count += 1; return state.
reducerWritesInPlace(d, s, a) ==
    IF a.type = "increment"
    THEN [s EXCEPT !.count = IF d = "AmountCounter"
                             THEN Plus(s.count, Num(1))
                             ELSE s.count + 1]
    ELSE s

\* What a reducer call leaves in the object it was given: every branch
\* builds its result with a spread copy, or returns an existing object.
reducerWrites(d, s, a) == s

\* The signed amount an action adds to the count.
Signed(a) ==
    CASE a.type = "increment" -> Num(1)
      [] a.type = "decrement" -> Num(-1)
      [] a.type = "incrementByAmount" -> a.payload
      [] a.type = "decrementByAmount" -> Minus(Num(0), a.payload)

\* The amounts dispatched since the last reset.
LedgerAfter(l, a) ==
    CASE a.type = "reset" -> <<>>
      [] a.type \in {"increment", "decrement"} \cup AmountTypes ->
            Append(l, Signed(a))
      [] OTHER -> l

\* What dispatch(a) does: useReducer stores reducer(state, a).
Dispatched(a) ==
    /\ action' = a
    /\ state' = Reduce(demo, state, a)
    /\ givenAfter' = reducerWrites(demo, state, a)
    /\ initialState' = IF stateIsInitial THEN givenAfter' ELSE initialState
    /\ stateIsInitial' =
          (ReturnsInitial(demo, a) \/ (ReturnsGiven(demo, a) /\ stateIsInitial))
    /\ prevState' = state
    /\ ledger' = IF demo = "AmountCounter" THEN LedgerAfter(ledger, a) ELSE ledger
    /\ IF demo = "AmountCounter"
       THEN Len(ledger') <= MaxLedger
       ELSE state'.count \in -MaxCount .. MaxCount

\* dispatch({ type }).
dispatch ==
    /\ demo \in ReducerDemos
    /\ \E t \in ActionTypes : Dispatched([type |-> t])
    /\ op' = "dispatch"
    /\ UNCHANGED <<amount, exceptReducer>>

\* handleIncrementByAmount / handleDecrementByAmount:
\* dispatch({ type, payload: input }).
dispatchAmount ==
    /\ demo = "AmountCounter"
    /\ \E t \in AmountTypes : Dispatched([type |-> t, payload |-> amount])
    /\ op' = "dispatch"
    /\ UNCHANGED <<amount, exceptReducer>>

\* onChange of the number field: setInput(parseInt(e.target.value)).
setAmount ==
    /\ demo = "AmountCounter"
    /\ \E v \in AmountInputs \ {amount} : amount' = v
    /\ op' = "input"
    /\ UNCHANGED <<state, initialState, action, prevState, stateIsInitial,
                   givenAfter, ledger, exceptReducer>>


\* ------------------------------------------------------ DebounceExample
\* The texts typed into the input field.
DebounceTexts == StringsOver({"a", "b"}, MaxLen)

\* The clock advances in steps of half the delay, up to MaxTime.
TimeStep == DebounceDelay \div 2
MaxTime == MaxSteps * TimeStep

DebounceInit ==
    /\ inputField = <<>>
    /\ debouncedField = <<>>
    /\ pending = {}
    /\ timeoutHandler = 0
    /\ nextTimeout = 1
    /\ now = 0
    /\ lastChangeAt = 0
    /\ debounceEffectDue = (demo = "DebounceExample")
    /\ debounceMounted = (demo = "DebounceExample")
    /\ changes = 0

\* setTimeout(() => setDebouncedField(inputField), 1000): the callback keeps
\* the input value of the render whose effect set it.
setTimeout(id, value) ==
    [id |-> id, due |-> now + DebounceDelay, value |-> value]

DebounceCleanupNoClear(h, p) == p

\* The effect's cleanup: clearTimeout(timeoutHandler).
DebounceCleanup(h, p) == {t \in p : t.id # h}

\* The effect of a render: the cleanup of the previous render's effect, then
\* the new timeout. The first render has no previous effect (handler 0).
DebounceEffect ==
    /\ demo = "DebounceExample"
    /\ debounceMounted
    /\ debounceEffectDue
    /\ pending' = DebounceCleanup(timeoutHandler, pending)
                    \cup {setTimeout(nextTimeout, inputField)}
    /\ timeoutHandler' = nextTimeout
    /\ nextTimeout' = nextTimeout + 1
    /\ debounceEffectDue' = FALSE
    /\ op' = "debounceEffect"
    /\ UNCHANGED <<inputField, debouncedField, now, lastChangeAt,
                   debounceMounted, changes>>
    /\ UNCHANGED exceptDebounce

\* onChange of the input: setInputField(e.target.value). The effects of an
\* input event's render run before the browser takes another task.
DebounceChange ==
    /\ demo = "DebounceExample"
    /\ debounceMounted
    /\ ~debounceEffectDue
    /\ changes < MaxChanges
    /\ \E v \in DebounceTexts \ {inputField} :
        inputField' = v
    /\ debounceEffectDue' = TRUE
    /\ lastChangeAt' = now
    /\ changes' = changes + 1
    /\ op' = "inputChange"
    /\ UNCHANGED <<debouncedField, pending, timeoutHandler, nextTimeout, now,
                   debounceMounted>>
    /\ UNCHANGED exceptDebounce

\* A timeout that is due fires, at its time or later: its callback sets the
\* debounced value (on an unmounted component the update is dropped).
DebounceTimeout ==
    /\ demo = "DebounceExample"
    /\ ~debounceEffectDue
    /\ \E t \in pending :
        /\ now >= t.due
        /\ pending' = pending \ {t}
        /\ debouncedField' =
                IF debounceMounted THEN t.value ELSE debouncedField
    /\ op' = "timeout"
    /\ UNCHANGED <<inputField, timeoutHandler, nextTimeout, now, lastChangeAt,
                   debounceEffectDue, debounceMounted, changes>>
    /\ UNCHANGED exceptDebounce

\* Time passes.
DebounceAdvance ==
    /\ demo = "DebounceExample"
    /\ ~debounceEffectDue
    /\ now < MaxTime
    /\ now' = now + TimeStep
    /\ op' = "wait"
    /\ UNCHANGED <<inputField, debouncedField, pending, timeoutHandler,
                   nextTimeout, lastChangeAt, debounceEffectDue,
                   debounceMounted, changes>>
    /\ UNCHANGED exceptDebounce

DebounceUnmountNoCleanup(h, p) == p

\* Unmounting runs the cleanup of the last effect.
DebounceUnmountCleanup(h, p) == DebounceCleanup(h, p)

DebounceUnmount ==
    /\ demo = "DebounceExample"
    /\ debounceMounted
    /\ ~debounceEffectDue
    /\ pending' = DebounceUnmountCleanup(timeoutHandler, pending)
    /\ debounceMounted' = FALSE
    /\ op' = "debounceUnmount"
    /\ UNCHANGED <<inputField, debouncedField, timeoutHandler, nextTimeout,
                   now, lastChangeAt, debounceEffectDue, changes>>
    /\ UNCHANGED exceptDebounce


\* ------------------------------------------------------------- DarkMode
DarkClass == "dark-mode"

\* The effect has no cleanup, so a mount finds the class list as the page's
\* earlier life left it.
DarkInit ==
    /\ darkMode = FALSE
    /\ bodyClasses \in
            IF demo = "DarkMode" THEN {{}, {DarkClass}} ELSE {{}}
    /\ darkEffectDue = (demo = "DarkMode")
    /\ darkClicks = 0

classListSwapped(dm, classes) ==
    IF dm THEN classes \cup {DarkClass} ELSE classes \ {DarkClass}

\* The body of the effect: remove the class when darkMode, add it otherwise.
classListAfter(dm, classes) ==
    IF dm THEN classes \ {DarkClass} ELSE classes \cup {DarkClass}

DarkEffect ==
    /\ demo = "DarkMode"
    /\ darkEffectDue
    /\ bodyClasses' = classListAfter(darkMode, bodyClasses)
    /\ darkEffectDue' = FALSE
    /\ op' = IF op = "toggleDarkMode" THEN "darkEffectOfClick"
                                      ELSE "darkEffect"
    /\ UNCHANGED <<darkMode, darkClicks>>
    /\ UNCHANGED exceptDark

\* onClick: setDarkMode(prev => !prev); the render runs the effect again.
toggleDarkMode ==
    /\ demo = "DarkMode"
    /\ ~darkEffectDue
    /\ darkClicks < MaxClicks
    /\ darkMode' = ~darkMode
    /\ darkEffectDue' = TRUE
    /\ darkClicks' = darkClicks + 1
    /\ op' = "toggleDarkMode"
    /\ UNCHANGED bodyClasses
    /\ UNCHANGED exceptDark

\* The component is unmounted and mounted again: new state, same body.
DarkRemount ==
    /\ demo = "DarkMode"
    /\ ~darkEffectDue
    /\ darkClicks < MaxClicks
    /\ darkMode' = FALSE
    /\ darkEffectDue' = TRUE
    /\ darkClicks' = darkClicks + 1
    /\ op' = "darkRemount"
    /\ UNCHANGED bodyClasses
    /\ UNCHANGED exceptDark


\* ----------------------------------------------------------- useCounter
\* The options a component passes to the hook; each is a number.
CounterOptions ==
    [initialValue : -MaxOption..MaxOption, step : -MaxOption..MaxOption,
     min : -MaxOption..MaxOption, max : -MaxOption..MaxOption]

UseCounterInit ==
    /\ options \in
            IF demo = "useCounter" THEN CounterOptions
            ELSE {[initialValue |-> 0, step |-> 1,
                   min |-> -MaxOption, max |-> MaxOption]}
    /\ hookCount = options.initialValue
    /\ hookCalls = 0

MathMin(a, b) == IF a < b THEN a ELSE b

MathMax(a, b) == IF a > b THEN a ELSE b

\* increment: setCount(prev => Math.min(max, prev + step)).
useCounterIncrement ==
    /\ demo = "useCounter"
    /\ hookCalls < MaxClicks
    /\ hookCount' = MathMin(options.max, hookCount + options.step)
    /\ hookCalls' = hookCalls + 1
    /\ op' = "useCounter.increment"
    /\ UNCHANGED options
    /\ UNCHANGED exceptUseCounter

\* decrement: setCount(prev => Math.max(min, prev - step)).
useCounterDecrement ==
    /\ demo = "useCounter"
    /\ hookCalls < MaxClicks
    /\ hookCount' = MathMax(options.min, hookCount - options.step)
    /\ hookCalls' = hookCalls + 1
    /\ op' = "useCounter.decrement"
    /\ UNCHANGED options
    /\ UNCHANGED exceptUseCounter

\* reset: setCount(initialValue).
useCounterReset ==
    /\ demo = "useCounter"
    /\ hookCalls < MaxClicks
    /\ hookCount' = options.initialValue
    /\ hookCalls' = hookCalls + 1
    /\ op' = "useCounter.reset"
    /\ UNCHANGED options
    /\ UNCHANGED exceptUseCounter


\* --------------------------------------------------------- UserProvider
JohnDoe == <<"J", "o", "h", "n", SP, "D", "o", "e">>

\* The texts typed into UpdateUser's input.
UserNameTexts == StringsOver({"a", SP}, MaxLen)

\* The UserProfile components rendered under the provider.
Consumers == 1..MaxConsumers

UserInit ==
    /\ user = [name |-> JohnDoe]
    /\ newName = <<>>
    /\ lastArg = <<>>
    /\ updateCalls = 0
    /\ shownName = [c \in Consumers |-> JohnDoe]
    /\ userRenderDue = FALSE

updateUserTrimmed(arg) == [name |-> trim(arg)]

\* updateUser = (newName) => setUser({ name: newName }).
updateUser(arg) == [name |-> arg]

\* UpdateUser's input onChange: setNewName(e.target.value).
setNewName ==
    /\ demo = "UserProvider"
    /\ ~userRenderDue
    /\ \E v \in UserNameTexts \ {newName} :
        newName' = v
    /\ op' = "setNewName"
    /\ UNCHANGED <<user, lastArg, updateCalls, shownName, userRenderDue>>
    /\ UNCHANGED exceptUser

\* UpdateUser.handleSubmit: a name that is not blank is passed on as typed.
UpdateUserSubmit ==
    /\ demo = "UserProvider"
    /\ ~userRenderDue
    /\ updateCalls < MaxClicks
    /\ IF trim(newName) # <<>>
       THEN /\ user' = updateUser(newName)
            /\ lastArg' = newName
            /\ updateCalls' = updateCalls + 1
            /\ newName' = <<>>
            /\ userRenderDue' = TRUE
       ELSE UNCHANGED <<user, lastArg, updateCalls, newName, userRenderDue>>
    /\ op' = "updateUserSubmit"
    /\ UNCHANGED shownName
    /\ UNCHANGED exceptUser

\* The provider renders with the new user; every consumer reads the value.
UserRender ==
    /\ demo = "UserProvider"
    /\ userRenderDue
    /\ shownName' = [c \in Consumers |-> user.name]
    /\ userRenderDue' = FALSE
    /\ op' = "userRender"
    /\ UNCHANGED <<user, newName, lastArg, updateCalls>>
    /\ UNCHANGED exceptUser


\* ------------------------------------------- useFetch with isMounted guard
\* useState(null): no request produced the initial data.
NullData == [req |-> 0, rows |-> "null"]

GuardedInit ==
    /\ hookUrl = "/posts"
    /\ hookData = NullData
    /\ hookLoading = TRUE
    /\ hookError = 0
    /\ issued = <<>>
    /\ outstanding = {}
    /\ mountedFlags = {}
    /\ hookEffectDue = (demo = "useFetchGuarded")
    /\ hookAlive = (demo = "useFetchGuarded")
    /\ settled = 0

\* The effect on [url]: the cleanup of the previous effect sets its isMounted
\* to false; the new effect has its own isMounted = true, calls
\* setLoading(true) and fetches the url.
GuardedEffect ==
    /\ demo = "useFetchGuarded"
    /\ hookAlive
    /\ hookEffectDue
    /\ Len(issued) < MaxRequests
    /\ issued' = Append(issued, hookUrl)
    /\ outstanding' = outstanding \cup {Len(issued) + 1}
    /\ mountedFlags' = {Len(issued) + 1}
    /\ hookLoading' = TRUE
    /\ hookEffectDue' = FALSE
    /\ op' = "guardedEffect"
    /\ UNCHANGED <<hookUrl, hookData, hookError, hookAlive, settled>>
    /\ UNCHANGED exceptGuarded

isMountedAlways(r, flags) == TRUE

\* if (isMounted): the flag of the effect that issued request r.
isMounted(r, flags) == r \in flags

\* The response of request r arrives: setData(result), setError(null) and
\* setLoading(false), each under the guard.
GuardedResolve ==
    /\ demo = "useFetchGuarded"
    /\ \E r \in outstanding, body \in {"empty", "rows"} :
         /\ outstanding' = outstanding \ {r}
         /\ settled' = r
         /\ IF isMounted(r, mountedFlags)
            THEN /\ hookData' = [req |-> r, rows |-> body]
                 /\ hookError' = 0
                 /\ hookLoading' = FALSE
            ELSE UNCHANGED <<hookData, hookError, hookLoading>>
    /\ op' = "guardedResolve"
    /\ UNCHANGED <<hookUrl, issued, mountedFlags, hookEffectDue, hookAlive>>
    /\ UNCHANGED exceptGuarded

\* Request r fails: setError(err), setData(null) and setLoading(false), each
\* under the guard.
GuardedReject ==
    /\ demo = "useFetchGuarded"
    /\ \E r \in outstanding :
         /\ outstanding' = outstanding \ {r}
         /\ settled' = r
         /\ IF isMounted(r, mountedFlags)
            THEN /\ hookData' = NullData
                 /\ hookError' = r
                 /\ hookLoading' = FALSE
            ELSE UNCHANGED <<hookData, hookError, hookLoading>>
    /\ op' = "guardedReject"
    /\ UNCHANGED <<hookUrl, issued, mountedFlags, hookEffectDue, hookAlive>>
    /\ UNCHANGED exceptGuarded

\* The caller renders the hook with another url; the effect (and the
\* cleanup of the previous one) runs after the commit.
GuardedChangeUrl ==
    /\ demo = "useFetchGuarded"
    /\ hookAlive
    /\ ~hookEffectDue
    /\ Len(issued) < MaxRequests
    /\ \E u \in Urls \ {hookUrl} : hookUrl' = u
    /\ hookEffectDue' = TRUE
    /\ op' = "guardedChangeUrl"
    /\ UNCHANGED <<hookData, hookLoading, hookError, issued, outstanding,
                   mountedFlags, hookAlive, settled>>
    /\ UNCHANGED exceptGuarded

\* Unmount: the cleanup of the last effect sets its isMounted to false.
GuardedUnmount ==
    /\ demo = "useFetchGuarded"
    /\ hookAlive
    /\ hookAlive' = FALSE
    /\ mountedFlags' = {}
    /\ hookEffectDue' = FALSE
    /\ op' = "guardedUnmount"
    /\ UNCHANGED <<hookUrl, hookData, hookLoading, hookError, issued,
                   outstanding, settled>>
    /\ UNCHANGED exceptGuarded


\* ----------------------------------------------------------------- Form
\* A text of n characters.
RECURSIVE Chars(_)
Chars(n) == IF n = 0 THEN <<>> ELSE Append(Chars(n - 1), "a")

\* What is typed into the name and password fields: nothing, or a text whose
\* length is around the one validate compares with.
FieldTexts ==
    {Chars(n) : n \in {0} \cup ((FormMinLen - 1)..(FormMinLen + MaxExtra))}

\* What is typed into the email field.
EmailTexts == StringsOver({"a", "@"}, MaxEmailLen)

FormInit ==
    /\ username = <<>>
    /\ email = <<>>
    /\ password = <<>>
    /\ confirmPassword = <<>>
    /\ errorUsername = ""
    /\ errorEmail = ""
    /\ errorPassword = ""
    /\ errorConfirmPassword = ""
    /\ userColor = ""
    /\ emailColor = ""
    /\ passwordColor = ""
    /\ confirmPasswordColor = ""

formFields == <<username, email, password, confirmPassword>>
formHints ==
    <<errorUsername, errorEmail, errorPassword, errorConfirmPassword,
      userColor, emailColor, passwordColor, confirmPasswordColor>>

setUsername ==
    /\ demo = "Form"
    /\ \E v \in FieldTexts \ {username} : username' = v
    /\ op' = "setUsername"
    /\ UNCHANGED <<email, password, confirmPassword, formHints, exceptForm>>

setEmail ==
    /\ demo = "Form"
    /\ \E v \in EmailTexts \ {email} : email' = v
    /\ op' = "setEmail"
    /\ UNCHANGED <<username, password, confirmPassword, formHints, exceptForm>>

setPassword ==
    /\ demo = "Form"
    /\ \E v \in FieldTexts \ {password} : password' = v
    /\ op' = "setPassword"
    /\ UNCHANGED <<username, email, confirmPassword, formHints, exceptForm>>

setConfirmPassword ==
    /\ demo = "Form"
    /\ \E v \in FieldTexts \ {confirmPassword} : confirmPassword' = v
    /\ op' = "setConfirmPassword"
    /\ UNCHANGED <<username, email, password, formHints, exceptForm>>

\* A validate whose accepting branch leaves the error text standing.
HintKeepsError(ok, message) ==
    [error |-> message, color |-> IF ok THEN "Green" ELSE "Red"]

\* The hint validate sets for a field: the error text and the border colour.
Hint(ok, message) ==
    IF ok THEN [error |-> "", color |-> "Green"]
    ELSE [error |-> message, color |-> "Red"]

\* username.length > 8, password.length > 8.
LongEnough(text) == Len(text) > FormMinLen

\* email.includes("@").
includes(text, c) == \E i \in 1..Len(text) : text[i] = c

\* The Sign In button: validate sets the hint of each of the four fields.
validate ==
    /\ demo = "Form"
    /\ LET u == Hint(LongEnough(username),
                     "Username must be at least 8 characters")
           m == Hint(includes(email, "@"), "Invalid email")
           p == Hint(LongEnough(password),
                     "Password must be at least 8 characters")
           c == Hint(confirmPassword = password, "Passwords do not match")
       IN  /\ errorUsername' = u.error
           /\ userColor' = u.color
           /\ errorEmail' = m.error
           /\ emailColor' = m.color
           /\ errorPassword' = p.error
           /\ passwordColor' = p.color
           /\ errorConfirmPassword' = c.error
           /\ confirmPasswordColor' = c.color
    /\ op' = "validate"
    /\ UNCHANGED <<formFields, exceptForm>>


\* ----------------------------------------------------------------- shop
\* A filter is null (no value) or holds the value of the chosen option.
Null == <<>>
Some(v) == <<v>>

\* The catalogue of db/data: title, category, color, company and newPrice
\* (a numeric text) of each product.
products ==
    << [title |-> <<"A", "b">>, category |-> "sneakers", color |-> "black",
        company |-> "Nike", newPrice |-> <<"5", "0">>],
       [title |-> <<"b", "a">>, category |-> "flats", color |-> "red",
        company |-> "Adidas", newPrice |-> <<"1", "0", "0">>],
       [title |-> <<"a", "B">>, category |-> "sneakers", color |-> "red",
        company |-> "Nike", newPrice |-> <<"1", "5", "0">>],
       [title |-> <<"b">>, category |-> "boots", color |-> "black",
        company |-> "Puma", newPrice |-> <<"2", "0", "1">>] >>

\* What is typed into the search field.
Queries == StringsOver({"a", "A", "b"}, MaxQueryLen)

\* The values of the Recommended buttons and of the price radio inputs.
CompanyOptions == {"", "Nike", "Adidas", "Puma", "Converse", "Vans"}
Dash == <<SP, "-", SP>>
PriceOptions ==
    {<<>>, <<"5", "0">> \o Dash \o <<"1", "0", "0">>,
     <<"1", "0", "0">> \o Dash \o <<"1", "5", "0">>,
     <<"1", "5", "0">> \o Dash \o <<"2", "0", "0">>}

\* String.prototype.toLowerCase.
Lower(c) == CASE c = "A" -> "a" [] c = "B" -> "b" [] OTHER -> c
toLowerCase(s) == [i \in 1..Len(s) |-> Lower(s[i])]

\* text.indexOf(part) !== -1, text.includes(part).
contains(text, part) ==
    \E i \in 0..(Len(text) - Len(part)) :
        SubSeq(text, i + 1, i + Len(part)) = part

\* String.prototype.split: the pieces between the separators.
RECURSIVE split(_, _)
split(s, sep) ==
    IF ~contains(s, sep) THEN <<s>>
    ELSE LET at(i) == SubSeq(s, i, i + Len(sep) - 1) = sep
             first == CHOOSE i \in 1..(Len(s) - Len(sep) + 1) :
                        at(i) /\ \A j \in 1..(i - 1) : ~at(j)
         IN  <<SubSeq(s, 1, first - 1)>>
                \o split(SubSeq(s, first + Len(sep), Len(s)), sep)

\* parseInt: the number its leading digits spell, NaN when there is none.
Digits == <<"0", "1", "2", "3", "4", "5", "6", "7", "8", "9">>
DigitOf(c) == (CHOOSE d \in 1..10 : Digits[d] = c) - 1
IsDigit(c) == \E d \in 1..10 : Digits[d] = c
RECURSIVE DigitsValue(_)
DigitsValue(s) ==
    IF s = <<>> THEN 0
    ELSE 10 * DigitsValue(SubSeq(s, 1, Len(s) - 1)) + DigitOf(s[Len(s)])
parseInt(s) ==
    LET n == CHOOSE k \in 0..Len(s) :
                /\ \A i \in 1..k : IsDigit(s[i])
                /\ k < Len(s) => ~IsDigit(s[k + 1])
    IN  IF n = 0 THEN NaN ELSE Num(DigitsValue(SubSeq(s, 1, n)))

\* a >= b and a <= b on numbers: false when either is NaN.
GreaterEq(a, b) == ~a.nan /\ ~b.nan /\ a.val >= b.val
LessEq(a, b) == ~a.nan /\ ~b.nan /\ a.val <= b.val

\* filteredItems: the products whose title has the query in it, whatever
\* the case of either.
filteredItems(ps, q) ==
    SelectSeq(ps, LAMBDA p :
        contains(toLowerCase(p.title), toLowerCase(q)))

\* `f && f !== ""`: the filter holds a value and it is not the empty one.
chosen(f, empty) == f # Null /\ f[1] # empty

\* filteredData: the query, then category, color, company and price.
filteredData(ps, selectedFilters, q) ==
    LET byQuery == IF q # <<>> THEN filteredItems(ps, q) ELSE ps
        byCategory ==
            IF chosen(selectedFilters.category, "")
            THEN SelectSeq(byQuery, LAMBDA p :
                    p.category = selectedFilters.category[1])
            ELSE byQuery
        byColor ==
            IF chosen(selectedFilters.color, "")
            THEN SelectSeq(byCategory, LAMBDA p :
                    p.color = selectedFilters.color[1])
            ELSE byCategory
        byCompany ==
            IF chosen(selectedFilters.company, "")
            THEN SelectSeq(byColor, LAMBDA p :
                    p.company = selectedFilters.company[1])
            ELSE byColor
    IN  IF /\ chosen(selectedFilters.price, <<>>)
           /\ contains(selectedFilters.price[1], Dash)
        THEN LET parts == split(selectedFilters.price[1], Dash)
                 min == parts[1]
                 max == parts[2]
             IN  SelectSeq(byCompany, LAMBDA p :
                    /\ GreaterEq(parseInt(p.newPrice), parseInt(min))
                    /\ LessEq(parseInt(p.newPrice), parseInt(max)))
        ELSE byCompany

\* The filters a direct call of filteredData is given.
FilterInputs ==
    [category : {Null, Some(""), Some("sneakers"), Some("flats")},
     price : {Null} \cup {Some(v) : v \in PriceOptions},
     color : {Null, Some("black"), Some("red")},
     company : {Null, Some("Nike"), Some("Puma")}]

NoFilters ==
    [category |-> Null, price |-> Null, color |-> Null, company |-> Null]

\* Products renders a Card for each item of the `data` it imports from
\* db/data; it does not read its `result` prop. Without that export it
\* renders nothing.
ProductsCards(res, exported) == IF exported THEN products ELSE <<>>

ShopInit ==
    /\ query \in IF demo = "filteredData" THEN Queries ELSE {<<>>}
    /\ filters \in IF demo = "filteredData" THEN FilterInputs ELSE {NoFilters}
    /\ dataExported \in IF demo = "Shop" THEN BOOLEAN ELSE {FALSE}
    /\ result = IF demo = "Shop" THEN filteredData(products, filters, query)
                ELSE <<>>
    /\ cards = IF demo = "Shop" THEN ProductsCards(result, dataExported)
               ELSE <<>>

\* The search field of Nav: setQuery(e.target.value), then App renders.
handleInputChange ==
    /\ demo = "Shop"
    /\ \E q \in Queries \ {query} :
        /\ query' = q
        /\ result' = filteredData(products, filters, q)
    /\ cards' = ProductsCards(result', dataExported)
    /\ op' = "handleInputChange"
    /\ UNCHANGED <<filters, dataExported>>
    /\ UNCHANGED exceptShop

\* A Recommended button: setFilters({ ...filters, company: value }). The
\* radio inputs of the Sidebar call nothing: App passes handleChange as
\* the prop `handleChange`, Sidebar hands on its prop `handleInputChange`.
handleClick ==
    /\ demo = "Shop"
    /\ \E v \in CompanyOptions :
        /\ filters' = [filters EXCEPT !.company = Some(v)]
        /\ result' = filteredData(products, filters', query)
    /\ cards' = ProductsCards(result', dataExported)
    /\ op' = "handleClick"
    /\ UNCHANGED <<query, dataExported>>
    /\ UNCHANGED exceptShop

\* A direct call of filteredData with the filters and the query.
callFilteredData ==
    /\ demo = "filteredData"
    /\ op = "mount"
    /\ result' = filteredData(products, filters, query)
    /\ op' = "filteredData"
    /\ UNCHANGED <<query, filters, cards, dataExported>>
    /\ UNCHANGED exceptShop

\* ------------------------------------------------------- specification
Demos ==
    ClickCounters \cup TodoDemos \cup FetchDemos
    \cup {"CallbackThree", "Timer"} \cup ReducerDemos
    \cup {"DebounceExample"}
    \cup {"DarkMode"}
    \cup {"useCounter"}
    \cup {"UserProvider"}
    \cup {"useFetchGuarded"}
    \cup {"Form"}
    \cup {"Shop", "filteredData"}

Init ==
    /\ demo \in Demos
    /\ op = "mount"
    /\ CounterInit
    /\ TodoInit
    /\ FetchInit
    /\ NameInit
    /\ TimerInit
    /\ ReducerInit
    /\ DebounceInit
    /\ DarkInit
    /\ UseCounterInit
    /\ UserInit
    /\ GuardedInit
    /\ FormInit
    /\ ShopInit

Next ==
    \/ increment
    \/ CounterRender
    \/ TodoChange
    \/ handleSubmit
    \/ TodoListClearAll
    \/ TodoDelete
    \/ FetchEffect
    \/ FetchResolve
    \/ FetchReject
    \/ ChangeUrl
    \/ NameEffect
    \/ handleChange
    \/ clearName
    \/ NameRemount
    \/ TimerEffect
    \/ TimerRerun
    \/ TimerUnmount
    \/ TimerPeriod
    \/ TimerTick
    \/ dispatch
    \/ dispatchAmount
    \/ setAmount
    \/ DebounceEffect
    \/ DebounceChange
    \/ DebounceTimeout
    \/ DebounceAdvance
    \/ DebounceUnmount
    \/ DarkEffect
    \/ toggleDarkMode
    \/ DarkRemount
    \/ useCounterIncrement
    \/ useCounterDecrement
    \/ useCounterReset
    \/ setNewName
    \/ UpdateUserSubmit
    \/ UserRender
    \/ GuardedEffect
    \/ GuardedResolve
    \/ GuardedReject
    \/ GuardedChangeUrl
    \/ GuardedUnmount
    \/ setUsername
    \/ setEmail
    \/ setPassword
    \/ setConfirmPassword
    \/ validate
    \/ handleInputChange
    \/ handleClick
    \/ callFilteredData

Spec == Init /\ [][Next]_vars

\* ---------------------------------------------------------------- claims

\* C1: in Callback (from 10) and Counter (from 0), after n Increment clicks
\* that were each handled in a render of their own, the count is the initial
\* count plus n, and once rendered that is the count displayed.
C1_CountIsInitialPlusClicks ==
    (demo \in ClickCounters /\ eachOwnRender) =>
        /\ count = InitialCount(demo) + clicks
        /\ handled = 0 => shown = count

C1_Witness ==
    /\ demo = "Callback"
    /\ eachOwnRender
    /\ clicks = MaxClicks
    /\ handled = 0
    /\ shown = CallbackInitialCount + MaxClicks

\* C2: a submit while the input is empty (Todo) or empty after trimming
\* (TodoList) changes neither the todos nor the input.
C2_EmptySubmitIsNoOp ==
    [][(/\ op' = "submit"
        /\ IF demo = "TodoList" THEN trim(input) = <<>> ELSE input = <<>>)
       => (todos' = todos /\ input' = input)]_vars

C2_Witness ==
    /\ demo = "TodoList"
    /\ op = "submit"
    /\ input = <<SP>>
    /\ Len(todos) = 1

\* C3: every component that loads on mount issues at most one GET per mount,
\* and exactly one once its effect has run.
C3_OneGetPerMount ==
    demo \in MountFetchDemos =>
        /\ Len(sent) <= 1
        /\ ~effectDue => Len(sent) = 1

\* C4: useFetch starts one request per url it is given and drops none; data
\* is the response that arrived last (the initial list before any arrives).
C4_DataIsLastArrived ==
    demo = "useFetch" =>
        /\ ~effectDue => Len(sent) = urlChanges + 1
        /\ Len(sent) = Cardinality(inflight) + Len(arrived) + unhandled
        /\ data = IF arrived = <<>> THEN InitialData ELSE arrived[Len(arrived)]

\* The response of the first url arrives after the one of the second and
\* stays in data while the second url is current.
C4_Witness ==
    /\ demo = "useFetch"
    /\ Len(arrived) = 2
    /\ arrived[1].req = 2
    /\ arrived[2].req = 1
    /\ data.req = 1
    /\ sent[data.req] # url

\* C5: after the Meals request failed, the error is logged once, meals is
\* still the initial empty list, no render threw and no rejection is unhandled.
C5_MealsFailureOnlyLogged ==
    (demo = "Meals" /\ op = "reject") =>
        /\ data = InitialData
        /\ log = <<1>>
        /\ ~crashed
        /\ unhandled = 0

C5_Witness ==
    /\ demo = "Meals"
    /\ op = "reject"
    /\ sent = <<MountUrl("Meals")>>
    /\ inflight = {}
    /\ log # <<>>

\* C6: once name has changed and no effect is pending, the local storage
\* entry is the JSON encoding of name.
C6_StorageInStep ==
    (demo = "CallbackThree" /\ nameChanged /\ ~nameEffectDue) =>
        storage = {<<"name", JSONstringify(name)>>}

\* C7: the Timer count starts at 0 and stays in 0..100; a tick adds 1 below
\* 100 and leaves the count alone from 100 on.
C7_TimerCountBounded ==
    /\ [](demo = "Timer" =>
            /\ timerCount \in 0 .. TimerLimit
            /\ nextId = 1 => timerCount = 0)
    /\ [][op' = "tick" =>
            timerCount' = IF timerCount < TimerLimit
                          THEN timerCount + 1
                          ELSE timerCount]_vars

\* The tick that saw 100 ran: it left the count and cleared the interval.
C7_Witness ==
    /\ demo = "Timer"
    /\ op = "tick"
    /\ timerCount = TimerLimit
    /\ live = {}
    /\ phase = "active"

\* C8: after Timer unmounts no interval is live, no tick callback runs and
\* the count does not change.
C8_NoTickAfterUnmount ==
    /\ []((demo = "Timer" /\ phase = "unmounted") => live = {})
    /\ [][(demo = "Timer" /\ phase = "unmounted") =>
            (timerCount' = timerCount /\ op' # "tick")]_vars

C8_Witness ==
    /\ demo = "Timer"
    /\ phase = "unmounted"
    /\ op = "unmount"
    /\ timerCount = 3
    /\ nextId = 2

\* C9: when the Timer effect is set up again its earlier interval is already
\* cleared: at most one interval is live, none while the effect is due, and
\* the count rises by at most 1 per period.
C9_OneLiveInterval ==
    demo = "Timer" =>
        /\ Cardinality(live) <= 1
        /\ phase = "effectDue" => live = {}
        /\ timerCount - periodStart <= 1

\* The second interval ticks after the first was cleared.
C9_Witness ==
    /\ demo = "Timer"
    /\ reruns = 1
    /\ phase = "active"
    /\ live = {2}
    /\ op = "tick"
    /\ timerCount = periodStart + 1

\* C10: the Counter reducer adds 1 on increment, subtracts 1 on decrement
\* and returns count 0 on every other action type, reset included.
C10_ReducerSteps ==
    (demo = "ReducerCounter" /\ op = "dispatch") =>
        CASE action.type = "increment" -> state.count = prevState.count + 1
          [] action.type = "decrement" -> state.count = prevState.count - 1
          [] OTHER -> state = [count |-> 0]

C10_Witness ==
    /\ demo = "ReducerCounter"
    /\ op = "dispatch"
    /\ action.type \in {"reset", "unknown"}
    /\ prevState.count = 2
    /\ state.count = 0

\* C11: the reducer of the Counter with amounts returns the initial state
\* { count: 0 } for an action type it does not know, whatever the state.
C11_UnknownActionGivesInitialState ==
    (demo = "AmountCounter" /\ op = "dispatch" /\ action.type = "unknown") =>
        state = [count |-> Num(0)]

RECURSIVE SumOf(_)
SumOf(l) == IF l = <<>> THEN Num(0) ELSE Plus(SumOf(Tail(l)), Head(l))

\* C12: in the Counter with amounts, incrementByAmount adds its payload,
\* decrementByAmount subtracts it, reset gives count 0, and the count is the
\* signed sum of what was dispatched since the last reset.
C12_CountIsSignedSum ==
    demo = "AmountCounter" =>
        /\ state.count = SumOf(ledger)
        /\ op = "dispatch" =>
             CASE action.type = "incrementByAmount" ->
                    state.count = Plus(prevState.count, action.payload)
               [] action.type = "decrementByAmount" ->
                    state.count = Minus(prevState.count, action.payload)
               [] action.type = "reset" -> state.count = Num(0)
               [] OTHER -> TRUE

C12_Witness ==
    /\ demo = "AmountCounter"
    /\ op = "dispatch"
    /\ action.type = "decrementByAmount"
    /\ action.payload = Num(2)
    /\ Len(ledger) = 3
    /\ state.count = Num(-1)

C14_DebouncedOnlyAfterQuietDelay ==
    [][demo = "DebounceExample" =>
        /\ op' = "inputChange" => debouncedField' = debouncedField
        /\ debouncedField' # debouncedField =>
            /\ op' = "timeout"
            /\ now - lastChangeAt >= DebounceDelay]_vars

C14_Witness ==
    /\ demo = "DebounceExample"
    /\ op = "timeout"
    /\ changes = 2
    /\ lastChangeAt = TimeStep
    /\ now = lastChangeAt + DebounceDelay
    /\ debouncedField = <<"a", "b">>


\* C20: DebounceExample never has more than one timeout pending: once the
\* effect of a change has run only the newest timeout is left, unmounting
\* leaves none, and a timeout that fires writes the value the input field
\* holds at that time.
C20_OnePendingTimeout ==
    demo = "DebounceExample" =>
        /\ Cardinality(pending) <= 1
        /\ \A t \in pending : t.id = timeoutHandler
        /\ ~debounceMounted => pending = {}
        /\ (op = "timeout" /\ debounceMounted) => debouncedField = inputField

C20_Witness ==
    /\ demo = "DebounceExample"
    /\ op = "timeout"
    /\ debounceMounted
    /\ changes = 3
    /\ nextTimeout = 5
    /\ pending = {}
    /\ debouncedField = inputField
    /\ inputField = <<"b">>


\* C15: in DarkMode, once the effects have run, the body has the class
\* dark-mode exactly when darkMode is false (so it has it after the mount);
\* a click flips darkMode and the effect of that click flips the class.
C15_ClassIffNotDarkMode ==
    /\ [](demo = "DarkMode" /\ ~darkEffectDue =>
            (DarkClass \in bodyClasses <=> ~darkMode))
    /\ [][demo = "DarkMode" =>
            /\ op' = "toggleDarkMode" => darkMode' = ~darkMode
            /\ op' = "darkEffectOfClick" =>
                (DarkClass \in bodyClasses') = (DarkClass \notin bodyClasses)
         ]_vars

C15_Witness ==
    /\ demo = "DarkMode"
    /\ op = "darkEffectOfClick"
    /\ darkMode
    /\ bodyClasses = {}
    /\ darkClicks = 3


\* C16: useCounter respects its bounds: increment leaves count at most max,
\* decrement leaves it at least min, and with initialValue in [min, max]
\* the count is in [min, max] after any calls of increment, decrement and
\* reset.
C16_CountStaysInBounds ==
    demo = "useCounter" =>
        /\ op = "useCounter.increment" => hookCount <= options.max
        /\ op = "useCounter.decrement" => hookCount >= options.min
        /\ (options.min <= options.initialValue
                /\ options.initialValue <= options.max) =>
            (options.min <= hookCount /\ hookCount <= options.max)


\* C17: under one UserProvider the user name is "John Doe" until the first
\* updateUser call and afterwards the argument of the most recent call, and
\* all consumers show one and the same name, the user's once rendered.
C17_NameIsLastUpdate ==
    demo = "UserProvider" =>
        /\ user.name = IF updateCalls = 0 THEN JohnDoe ELSE lastArg
        /\ \A c, d \in Consumers : shownName[c] = shownName[d]
        /\ ~userRenderDue => \A c \in Consumers : shownName[c] = user.name

C17_Witness ==
    /\ demo = "UserProvider"
    /\ op = "userRender"
    /\ updateCalls = 2
    /\ user.name = <<SP, "a">>
    /\ \A c \in Consumers : shownName[c] = <<SP, "a">>


\* A response or failure that arrives after the cleanup of the effect that
\* issued its request leaves data, error and loading as they are.
DroppedAfterCleanup ==
    [][(demo = "useFetchGuarded"
            /\ op' \in {"guardedResolve", "guardedReject"}
            /\ settled' \notin mountedFlags) =>
        UNCHANGED <<hookData, hookError, hookLoading>>]_vars

\* C18 (as stated): the guarded useFetch writes nothing after the cleanup of
\* an effect, and data only ever holds a response for the url of the effect
\* that is active.
C18_DataOnlyForActiveUrl ==
    /\ DroppedAfterCleanup
    /\ [](demo = "useFetchGuarded" =>
            \A a \in mountedFlags :
                hookData.req # 0 => issued[hookData.req] = issued[a])

\* C18 (amended): the guarded useFetch writes nothing after the cleanup of
\* an effect; once the request of the active effect has settled, data is its
\* response (or null with its error), and until then data is what the
\* earlier effects left, which can be a response for another url.
C18_OnlyActiveEffectWrites ==
    /\ DroppedAfterCleanup
    /\ [](demo = "useFetchGuarded" =>
            \A a \in mountedFlags :
                a \notin outstanding =>
                    /\ ~hookLoading
                    /\ IF hookError = 0 THEN hookData.req = a
                       ELSE hookError = a /\ hookData = NullData)

C18_Witness ==
    /\ demo = "useFetchGuarded"
    /\ op = "guardedResolve"
    /\ settled = 1
    /\ mountedFlags = {2}
    /\ outstanding = {}
    /\ hookData.req = 2
    /\ issued = <<"/posts", "/todos">>


\* C19: validate accepts (empty error text, Green) every username and every
\* password of at least 8 characters, and rejects every shorter one with the
\* message that it must be at least 8 characters.
C19_AtLeastEightAccepted ==
    (demo = "Form" /\ op = "validate") =>
        /\ IF Len(username) >= FormMinLen
           THEN errorUsername = "" /\ userColor = "Green"
           ELSE /\ errorUsername = "Username must be at least 8 characters"
                /\ userColor = "Red"
        /\ IF Len(password) >= FormMinLen
           THEN errorPassword = "" /\ passwordColor = "Green"
           ELSE /\ errorPassword = "Password must be at least 8 characters"
                /\ passwordColor = "Red"


\* cs has a card of product p.
Shows(cs, p) == \E i \in 1..Len(cs) : cs[i] = p

\* A filter that is null or the empty string (All) excludes nothing.
Open(f, empty) == f = Null \/ f[1] = empty

\* The products the filters and the query select: the title contains the
\* query, case ignored; category, colour and company are equal to the
\* chosen ones; the price lies between the two bounds of "min - max".
Selected(p, q, f) ==
    /\ contains(toLowerCase(p.title), toLowerCase(q))
    /\ Open(f.category, "") \/ p.category = f.category[1]
    /\ Open(f.color, "") \/ p.color = f.color[1]
    /\ Open(f.company, "") \/ p.company = f.company[1]
    /\ \/ Open(f.price, <<>>)
       \/ LET bounds == split(f.price[1], Dash)
          IN  /\ parseInt(bounds[1]).val <= parseInt(p.newPrice).val
              /\ parseInt(p.newPrice).val <= parseInt(bounds[2]).val

\* C21: the shop shows a product exactly when its title contains the query
\* and it satisfies every selected filter.
C21_ShownIffSelected ==
    demo = "Shop" =>
        \A i \in 1..Len(products) :
            Shows(cards, products[i]) <=> Selected(products[i], query, filters)


\* The hint of a field says accepted, and the two ways it can be consistent.
Accepted(error, color) == error = "" /\ color = "Green"
Consistent(error, color) ==
    /\ color \in {"Green", "Red"}
    /\ error = "" <=> color = "Green"
    /\ error # "" <=> color = "Red"

\* C22: once validate has run, the error text of each of the four fields is
\* empty exactly when its colour is Green and non-empty exactly when it is
\* Red; validate accepts the confirm field exactly when it equals the
\* password, and the email exactly when it contains "@".
C22_HintsConsistent ==
    demo = "Form" =>
        /\ (op = "validate" \/ userColor # "") =>
            /\ Consistent(errorUsername, userColor)
            /\ Consistent(errorEmail, emailColor)
            /\ Consistent(errorPassword, passwordColor)
            /\ Consistent(errorConfirmPassword, confirmPasswordColor)
        /\ op = "validate" =>
            /\ Accepted(errorConfirmPassword, confirmPasswordColor)
                    <=> confirmPassword = password
            /\ Accepted(errorEmail, emailColor)
                    <=> \E i \in 1..Len(email) : email[i] = "@"

C22_Witness ==
    /\ demo = "Form"
    /\ op = "validate"
    /\ password = Chars(FormMinLen + 1)
    /\ confirmPassword = password
    /\ email = <<"@">>
    /\ username = Chars(FormMinLen - 1)
    /\ Accepted(errorConfirmPassword, confirmPasswordColor)
    /\ Accepted(errorEmail, emailColor)
    /\ errorUsername # ""


\* C23: the name of CallbackThree survives a remount: once the effect has
\* stored the name, a new mount starts with that same name, however often
\* store and remount are repeated.
C23_NameSurvivesRemount ==
    [][(demo = "CallbackThree" /\ ~nameEffectDue /\ op' = "mount") =>
        name' = name]_vars

====
